---- MODULE Spec2Model ----
(***************************************************************************)
(* Attendance reconciliation and device synchronisation of the ZKTeco      *)
(* biometric integration (models/zkteco_device_punching_logs.py and        *)
(* models/zkteco_device_settings.py).                                      *)
(*                                                                         *)
(* Conventions.  A record id, an employee id, a punch time or a check_out  *)
(* that is empty (False/None in the ORM) is written 0; real ids and times  *)
(* start at 1.  A textual device user ID is a sequence of characters, a    *)
(* character being a number: 0..9 are the decimal digits and Letter (10)   *)
(* stands for a non-digit character, which sorts after every digit as in   *)
(* Python's string order.  A handler that raises leaves the store as it    *)
(* was (the ORM rolls the transaction back) and records result "error".    *)
(* The ORM's create/write/search are taken at face value: a record holds   *)
(* the values the code passes, and the base hr.attendance validity         *)
(* constraints of the framework are not part of this repository.           *)
(***************************************************************************)
EXTENDS Integers, Sequences, FiniteSets, TLC

VARIABLES
    deviceUsers,    \* zkteco.attendance.machine rows
    deviceStates,   \* zkteco.device.states rows
    logs,           \* zkteco.device.logs rows
    attendances,    \* hr.attendance rows
    seq,            \* next record id of each table
    createTrace,    \* the ZktecoDeviceLogs.create calls of the last handler
    lastOp,         \* the last handler run: name, device, argument, result
    rerun,          \* the last handler repeated the one before it, on the same input
    zkAttendance,   \* the punches each physical device holds (get_attendance)
    observe,        \* which history a behaviour records: "creates", "reruns" or "store"
    zkUsers,        \* the users registered on each physical device (get_users)
    setUserCalls,   \* the set_user calls of the last action_synchronize_employees
    syncSeen,       \* what get_users returned to the last action_synchronize_employees
    commands,       \* zkteco.dcmmand rows
    cmdOp,          \* the last poll, acknowledgment, command request or user payload
    fingerprints,   \* zkteco.device.fingerprints rows
    fpOp,           \* the last action_create_device_user_fingerprint
    usernames,      \* zkteco_device_username of the device users that were given one
    txns,           \* the ZktecoDeviceLogs.create call each session is in
    raceBase,       \* the store when the sessions' calls began to overlap
    delivered       \* how many poll responses contained each command's execution log

vars == <<deviceUsers, deviceStates, logs, attendances, seq, createTrace,
          lastOp, rerun, observe, zkAttendance, zkUsers, setUserCalls, syncSeen,
          commands, cmdOp, fingerprints, fpOp, usernames, txns, raceBase, delivered>>

syncVars == <<zkUsers, setUserCalls, syncSeen>>
admsVars == <<commands, cmdOp, fingerprints, fpOp, usernames, delivered>>
raceVars == <<txns, raceBase>>

\* At most MaxCommands commands are ever queued.
MaxCommands == 2

NoCmd == [kind |-> "none", device |-> 0, id |-> 0, response |-> <<>>, found |-> 0]
NoFp == [device |-> 0, user_id |-> <<>>, input |-> <<>>, padded |-> <<>>, ok |-> TRUE]

\* The two sessions that can run ZktecoDeviceLogs.create side by side.
Sessions == {1, 2}

NoTxn == [pc |-> "idle", vals |-> <<>>, last |-> {}, tb |-> "asc"]
NoBase == [logs |-> {}, atts |-> {}, seq |-> <<>>]

\* No command, no fingerprint template and no display name is stored at the
\* start, and no session is inside a call.
InitAdms ==
    /\ commands = {}
    /\ cmdOp = NoCmd
    /\ fingerprints = {}
    /\ fpOp = NoFp
    /\ usernames = {}
    /\ txns = [s \in Sessions |-> NoTxn]
    /\ raceBase = NoBase
    /\ delivered = [id \in 1..MaxCommands |-> 0]

---------------------------------------------------------------------------
(* Bounds *)

NumEmployees == 2
MaxLocal == 2
MaxPunches == 2
MaxLines == 1
MaxLogs == 3
MaxZkUsers == 2
MaxIdLen == 2

Devices == {1, 2}
\* Device 1 is polled over the ZK protocol; device 2 is an ADMS device, which pushes.
PullDevices == {1}
PushDevices == {2}
Employees == 1..NumEmployees
LocalTimes == 1..MaxLocal
Letter == 10

UserIds == {<<1>>, <<2>>}
StatusCodes == {1, 2, 3}

SeqsUpTo(S, n) == UNION {[1..k -> S] : k \in 0..n}

Max(S) == CHOOSE x \in S : \A y \in S : y <= x

---------------------------------------------------------------------------
(* Strings *)

\* Python's str comparison a < b: lexicographic by character, a proper prefix first.
RECURSIVE StrLess(_, _)
StrLess(a, b) ==
    IF a = <<>> THEN b # <<>>
    ELSE IF b = <<>> THEN FALSE
    ELSE IF Head(a) # Head(b) THEN Head(a) < Head(b)
    ELSE StrLess(Tail(a), Tail(b))

---------------------------------------------------------------------------
(* Time zones *)

\* The hours a device's zone lies behind UTC: UTC = local + TzShift.  Device 2
\* is on GMT, device 1 in a zone one hour behind it that has DST.
TzShift(d) == IF d = 1 THEN 1 ELSE 0

\* The local times of a device's zone that fall in a DST gap or overlap.
DstLocal(d) == IF d = 1 THEN {MaxLocal + 1} ELSE {}

\* pytz localize(..., is_dst=None) then astimezone(utc): raises on a DST time.
LocalizeStrict(d, t) ==
    IF t \in DstLocal(d) THEN [ok |-> FALSE, utc |-> 0]
    ELSE [ok |-> TRUE, utc |-> t + TzShift(d)]

\* pytz localize(...) with the default is_dst=False: never raises, standard offset.
LocalizeLenient(d, t) == t + TzShift(d)

---------------------------------------------------------------------------
(* ZktecoDeviceLogs.create *)

\* hr.attendance search([('employee_id','=',e)], order='check_in desc', limit=1).
\* Rows with equal check_in come in an order the database chooses: tb picks it.
LastAttendance(atts, e, tb) ==
    LET mine == {a \in atts : a.employee = e}
        top == {a \in mine : \A b \in mine : b.check_in <= a.check_in}
    IN  IF mine = {} THEN {}
        ELSE {CHOOSE a \in top : \A b \in top :
                  IF tb = "asc" THEN a.id <= b.id ELSE a.id >= b.id}

\* Line 122: not last_attendance or last_attendance.check_out.
BranchNew_NoCheckOut(last) == last = {}
BranchNew(last) == last = {} \/ (CHOOSE a \in last : TRUE).check_out # 0

\* Lines 131-136: the else of punch_time > last_attendance.check_in.
BranchStale_Strict(punch_time, last) == punch_time < last.check_in
BranchStale_Never(punch_time, last) == FALSE
BranchStale(punch_time, last) == ~(punch_time > last.check_in)

\* Line 132: last_attendance.write({'check_out': punch_time}).
CheckOut_WrongField(last, punch_time) == [last EXCEPT !.check_in = punch_time]
CheckOut(last, punch_time) == [last EXCEPT !.check_out = punch_time]

\* st is the store (logs, atts, seq, trace); vals the values of the new log: its
\* device user, employee (related to the device user), UTC punch time, status,
\* calculated flag and timestamp.  A log carries no id; seq.log counts the logs
\* created.  The log is inserted, then the employee's attendance is created or
\* closed and the log's status overwritten; last is what the search for the
\* employee's most recent attendance returned.
LogCreateFrom(st, vals, last) ==
    LET record == vals
        seq1 == [st.seq EXCEPT !.log = @ + 1]
        la == CHOOSE a \in last : TRUE
    IN  IF vals.employee = 0 \/ vals.time = 0
        THEN [st EXCEPT !.logs = @ \cup {record}, !.seq = seq1]
        ELSE LET new == BranchNew(last)
                 stale == ~new /\ BranchStale(vals.time, la)
                 atts1 == IF new
                          THEN st.atts \cup {[id |-> st.seq.att, employee |-> vals.employee,
                                              check_in |-> vals.time, check_out |-> 0]}
                          ELSE IF stale THEN st.atts
                          ELSE (st.atts \ {la}) \cup {CheckOut(la, vals.time)}
                 status == IF new THEN "0" ELSE IF stale THEN "2" ELSE "1"
                 seq2 == IF new THEN [seq1 EXCEPT !.att = @ + 1] ELSE seq1
             IN  [logs |-> st.logs \cup {[record EXCEPT !.status = status]},
                  atts |-> atts1,
                  seq |-> seq2,
                  trace |-> Append(st.trace,
                                   [employee |-> vals.employee,
                                    time |-> vals.time, status |-> status,
                                    before |-> st.atts, after |-> atts1])]

LogCreate(st, vals, tb) ==
    LogCreateFrom(st, vals, LastAttendance(st.atts, vals.employee, tb))

---------------------------------------------------------------------------
(* action_pull_attendance_logs *)

\* zkteco.attendance.machine rows of a device.
SearchByDevice(dus, d) == {u \in dus : u.device = d}

\* zkteco.attendance.machine search by (zkteco_device_attend_id, device_id).
SearchDeviceUsers(dus, attend, d) == {u \in dus : u.attend = attend /\ u.device = d}

\* First loop: every raw record is converted to UTC and resolved to a device
\* user; a DST time or more than one device user raises; a record of an unknown
\* user is dropped.
RECURSIVE PullResolve(_, _, _, _)
PullResolve(dus, d, recs, i) ==
    IF i > Len(recs) THEN [ok |-> TRUE, list |-> <<>>]
    ELSE LET loc == LocalizeStrict(d, recs[i].timestamp)
             employee_records == SearchDeviceUsers(dus, recs[i].user_id, d)
             rest == PullResolve(dus, d, recs, i + 1)
         IN  IF ~loc.ok \/ Cardinality(employee_records) > 1 \/ ~rest.ok
             THEN [ok |-> FALSE, list |-> <<>>]
             ELSE IF employee_records = {} THEN rest
             ELSE [ok |-> TRUE,
                   list |-> <<[user_id |-> recs[i].user_id, time |-> loc.utc,
                               employee |-> (CHOOSE u \in employee_records : TRUE).employee]>>
                            \o rest.list]

\* The sort key (user_id, attendance_time).
EntryLess(a, b) ==
    StrLess(a.user_id, b.user_id) \/ (a.user_id = b.user_id /\ a.time < b.time)

\* sorted(...) is stable: an entry goes after the entries not greater than it.
RECURSIVE SortedAttendance(_)
SortedAttendance(list) ==
    IF list = <<>> THEN <<>>
    ELSE LET s == SortedAttendance(SubSeq(list, 1, Len(list) - 1))
             x == list[Len(list)]
             p == Cardinality({k \in 1..Len(s) : ~EntryLess(x, s[k])})
         IN  SubSeq(s, 1, p) \o <<x>> \o SubSeq(s, p + 1, Len(s))

\* The alternation rule of employee_status_tracker.
NextStatus(previous_status) ==
    IF previous_status = "" THEN "Check-in"
    ELSE IF previous_status = "Check-in" THEN "Check-out" ELSE "Check-in"

\* zkteco.device.logs search by (employee_id, user_punch_time).
SearchLogs_ByTimestamp(L, employee, time) ==
    {l \in L : l.employee = employee /\ l.timestamp = time}
SearchLogs(L, employee, time) == {l \in L : l.employee = employee /\ l.time = time}

\* existing_log.write(vals): status and the other given values are overwritten,
\* user_punch_calculated keeps the existing log's value.
LogWrite(l, employee, time, status) ==
    [l EXCEPT !.employee = employee, !.time = time, !.status = status,
              !.calculated = l.calculated]

\* Second loop, from entry i on; tracker maps a user_id to its last status.
RECURSIVE PullLoop(_, _, _, _, _)
PullLoop(st, sorted, i, tracker, tb) ==
    IF i > Len(sorted) \/ ~st.ok THEN st
    ELSE LET entry == sorted[i]
             status == NextStatus(tracker[entry.user_id])
             existing_log == SearchLogs(st.logs, entry.employee, entry.time)
             value == IF status = "Check-in" THEN "0" ELSE "1"
             tracker1 == [tracker EXCEPT ![entry.user_id] = status]
         IN  IF Cardinality(existing_log) > 1
             THEN [st EXCEPT !.ok = FALSE]
             ELSE IF existing_log # {}
             THEN LET l == CHOOSE x \in existing_log : TRUE
                  IN  PullLoop([st EXCEPT !.logs = (@ \ {l}) \cup
                                     {LogWrite(l, entry.employee, entry.time, value)}],
                               sorted, i + 1, tracker1, tb)
             ELSE LET c == LogCreate([logs |-> st.logs, atts |-> st.atts,
                                      seq |-> st.seq, trace |-> st.trace],
                                     [duser |-> 0, employee |-> entry.employee,
                                      time |-> entry.time, status |-> value,
                                      calculated |-> FALSE, timestamp |-> 0], tb)
                  IN  PullLoop([ok |-> TRUE, logs |-> c.logs, atts |-> c.atts,
                                seq |-> c.seq, trace |-> c.trace],
                               sorted, i + 1, tracker1, tb)

\* The whole handler on device d: connection is connect()'s result and
\* raw_attendance_records get_attendance()'s.
PullRun(st, dus, d, connection, raw_attendance_records, tb) ==
    LET failed == [st EXCEPT !.ok = FALSE]
        res == PullResolve(dus, d, raw_attendance_records, 1)
        sorted == SortedAttendance(res.list)
        tracker == [u \in {sorted[k].user_id : k \in 1..Len(sorted)} |-> ""]
        out == PullLoop(st, sorted, 1, tracker, tb)
    IN  IF ~connection \/ raw_attendance_records = <<>> \/ ~res.ok THEN failed
        ELSE IF out.ok THEN out ELSE failed

\* What a person can punch on device d: any local time, the DST ones included.
RawPunches(d) == [user_id : UserIds, timestamp : LocalTimes \cup DstLocal(d)]

NoOp == [kind |-> "none", device |-> 0, arg |-> <<>>, ok |-> TRUE]

\* The history of a handler run: under "creates" the ZktecoDeviceLogs.create
\* calls it made, under "reruns" the handler, its device and its payload, and
\* whether it repeats the run before it, which succeeded.
Record(trace, op) ==
    /\ createTrace' = IF observe = "creates" THEN trace ELSE <<>>
    /\ lastOp' = IF observe = "reruns" THEN op ELSE NoOp
    /\ rerun' = (observe = "reruns" /\ op.kind \in {"pull", "push"} /\ lastOp.ok
                 /\ [op EXCEPT !.ok = TRUE] = lastOp)
    /\ UNCHANGED observe

\* A person punches on device d: the device keeps the raw punch.
Punch(d) ==
    \E p \in RawPunches(d) :
        /\ Len(zkAttendance[d]) < MaxPunches
        /\ zkAttendance' = [zkAttendance EXCEPT ![d] = Append(@, p)]
        /\ Record(<<>>, [kind |-> "punch", device |-> d, arg |-> <<>>, ok |-> TRUE])
        /\ UNCHANGED <<deviceUsers, deviceStates, logs, attendances, seq, syncVars, admsVars, raceVars>>

Store == [ok |-> TRUE, logs |-> logs, atts |-> attendances, seq |-> seq, trace |-> <<>>]

action_pull_attendance_logs(d) ==
    \E connection \in BOOLEAN, tb \in {"asc", "desc"} :
        LET out == PullRun(Store, deviceUsers, d, connection, zkAttendance[d], tb)
        IN  /\ Cardinality(out.logs) <= MaxLogs
            /\ logs' = out.logs
            /\ attendances' = out.atts
            /\ seq' = out.seq
            /\ Record(out.trace, [kind |-> "pull", device |-> d, arg |-> <<>>, ok |-> out.ok])
            /\ UNCHANGED <<deviceUsers, deviceStates, zkAttendance, syncVars, admsVars, raceVars>>

---------------------------------------------------------------------------
(* action_create_device_zkteco_logs *)

\* search(..., limit=1): the first row in id order, or none.
First(rows) == IF rows = {} THEN {} ELSE {CHOOSE r \in rows : \A q \in rows : r.id <= q.id}

\* local_datetime.timestamp(): the epoch seconds of the naive local time.
Timestamp(local) == local

\* zkteco.device.logs search by (zketco_duser_id, timestamp); limit=1 is left
\* out, the caller only asking whether a log was found.
SearchLogsByStamp(L, duser, timestamp) ==
    {l \in L : l.duser = duser /\ l.timestamp = timestamp}

\* The status a raw status code has in the device's state table.
PunchStatus(states, d, code) ==
    LET state_record == {s \in states : s.code = code /\ s.device = d}
        activity == (CHOOSE s \in state_record : TRUE).activity
    IN  IF state_record = {} THEN "2"
        ELSE IF activity = "check_in" THEN "0"
        ELSE IF activity = "check_out" THEN "1"
        ELSE "2"

\* One line of the payload; st also carries the device users.
PushLine(st, states, d, line, tb) ==
    LET found == First(SearchDeviceUsers(st.dus, line.user_id, d))
        device_user_record ==
            IF found # {} THEN CHOOSE u \in found : TRUE
            ELSE [id |-> st.seq.duser, attend |-> line.user_id, device |-> d,
                  employee |-> 0]
        st1 == IF found # {} THEN st
               ELSE [st EXCEPT !.dus = @ \cup {device_user_record},
                               !.seq = [@ EXCEPT !.duser = @ + 1]]
        utc == LocalizeLenient(d, line.local)
        timestamp == Timestamp(line.local)
        existing_log == SearchLogsByStamp(st1.logs, device_user_record.id, timestamp)
        c == LogCreate([logs |-> st1.logs, atts |-> st1.atts, seq |-> st1.seq,
                        trace |-> st1.trace],
                       [duser |-> device_user_record.id,
                        employee |-> device_user_record.employee,
                        time |-> utc, status |-> PunchStatus(states, d, line.code),
                        calculated |-> FALSE, timestamp |-> timestamp], tb)
    IN  IF existing_log # {} THEN st1
        ELSE [st1 EXCEPT !.logs = c.logs, !.atts = c.atts, !.seq = c.seq,
                         !.trace = c.trace]

RECURSIVE PushRun(_, _, _, _, _, _)
PushRun(st, states, d, lines, i, tb) ==
    IF i > Len(lines) THEN st
    ELSE PushRun(PushLine(st, states, d, lines[i], tb), states, d, lines, i + 1, tb)

\* The lines device d can send: any local time, the DST ones included.
PunchLines(d) ==
    [user_id : UserIds, local : LocalTimes \cup DstLocal(d), code : StatusCodes]

action_create_device_zkteco_logs(d) ==
    \E lines \in SeqsUpTo(PunchLines(d), MaxLines), tb \in {"asc", "desc"} :
        LET out == PushRun([dus |-> deviceUsers, logs |-> logs, atts |-> attendances,
                            seq |-> seq, trace |-> <<>>],
                           deviceStates, d, lines, 1, tb)
        IN  /\ lines # <<>>
            /\ Cardinality(out.logs) <= MaxLogs
            /\ deviceUsers' = out.dus
            /\ logs' = out.logs
            /\ attendances' = out.atts
            /\ seq' = out.seq
            /\ Record(out.trace, [kind |-> "push", device |-> d, arg |-> lines, ok |-> TRUE])
            /\ UNCHANGED <<deviceStates, zkAttendance, syncVars, admsVars, raceVars>>

---------------------------------------------------------------------------
(* The attendance engine: pulls and pushed punch lines on two devices *)

\* _constraint_adms_setting: the default state table of an ADMS device.
DefaultStates(d) ==
    {[device |-> d, code |-> 1, activity |-> "check_in"],
     [device |-> d, code |-> 2, activity |-> "check_out"]}

\* Device 1 knows user "1" (employee 1) and user "2" (employee 2); device 2
\* knows user "1" (employee 1) only.
InitDeviceUsers ==
    {[id |-> 1, attend |-> <<1>>, device |-> 1, employee |-> 1],
     [id |-> 2, attend |-> <<2>>, device |-> 1, employee |-> 2],
     [id |-> 3, attend |-> <<1>>, device |-> 2, employee |-> 1]}

Init ==
    /\ deviceUsers = InitDeviceUsers
    /\ deviceStates = UNION {DefaultStates(d) : d \in PushDevices}
    /\ logs = {}
    /\ attendances = {}
    /\ seq = [duser |-> 4, log |-> 1, att |-> 1]
    /\ createTrace = <<>>
    /\ lastOp = NoOp
    /\ rerun = FALSE
    /\ observe = "creates"
    /\ zkAttendance = [d \in Devices |-> <<>>]
    /\ zkUsers = [d \in Devices |-> <<>>]
    /\ setUserCalls = <<>>
    /\ syncSeen = [device |-> 0, ok |-> TRUE, users |-> <<>>, had |-> {}]
    /\ InitAdms

Next ==
    \/ \E d \in PullDevices : Punch(d)
    \/ \E d \in PullDevices : action_pull_attendance_logs(d)
    \/ \E d \in PushDevices : action_create_device_zkteco_logs(d)

Spec == Init /\ [][Next]_vars

\* The same engine, recording the handler runs instead of the create calls.
InitRerun ==
    /\ deviceUsers = InitDeviceUsers
    /\ deviceStates = UNION {DefaultStates(d) : d \in PushDevices}
    /\ logs = {}
    /\ attendances = {}
    /\ seq = [duser |-> 4, log |-> 1, att |-> 1]
    /\ createTrace = <<>>
    /\ lastOp = NoOp
    /\ rerun = FALSE
    /\ observe = "reruns"
    /\ zkAttendance = [d \in Devices |-> <<>>]
    /\ zkUsers = [d \in Devices |-> <<>>]
    /\ setUserCalls = <<>>
    /\ syncSeen = [device |-> 0, ok |-> TRUE, users |-> <<>>, had |-> {}]
    /\ InitAdms

SpecRerun == InitRerun /\ [][Next]_vars

---------------------------------------------------------------------------
(* action_synchronize_employees *)

IsDigit(c) == c < Letter

\* The length of the run of digits s starts with.
RECURSIVE DigitRun(_)
DigitRun(s) == IF s = <<>> \/ ~IsDigit(Head(s)) THEN 0 ELSE 1 + DigitRun(Tail(s))

\* int(number) of a run of digits.
RECURSIVE ToInt(_)
ToInt(run) ==
    IF run = <<>> THEN 0 ELSE 10 * ToInt(SubSeq(run, 1, Len(run) - 1)) + run[Len(run)]

\* str(n) of a natural number.
RECURSIVE ToStr(_)
ToStr(n) == IF n < 10 THEN <<n>> ELSE ToStr(n \div 10) \o <<n % 10>>

\* re.sub(r'(\d+)', increment, current_user_id): every maximal run of digits is
\* replaced by the decimal of its value plus one.
RECURSIVE generate_next_user_id(_)
generate_next_user_id(s) ==
    IF s = <<>> THEN <<>>
    ELSE IF ~IsDigit(Head(s)) THEN <<Head(s)>> \o generate_next_user_id(Tail(s))
    ELSE LET k == DigitRun(s)
         IN  ToStr(ToInt(SubSeq(s, 1, k)) + 1)
                 \o generate_next_user_id(SubSeq(s, k + 1, Len(s)))

Range(list) == {list[k] : k \in DOMAIN list}

\* device_user_id_list after sort(): ascending in Python's string order.
RECURSIVE SortedIds(_)
SortedIds(list) ==
    IF list = <<>> THEN <<>>
    ELSE LET s == SortedIds(SubSeq(list, 1, Len(list) - 1))
             x == list[Len(list)]
             p == Cardinality({k \in 1..Len(s) : ~StrLess(x, s[k])})
         IN  SubSeq(s, 1, p) \o <<x>> \o SubSeq(s, p + 1, Len(s))

\* uid_list.sort(); max_uid = uid_list[-1].
MaxUid_Count(uid_list) == Len(uid_list)
MaxUid(uid_list) == Max(Range(uid_list))

\* Line 244: the textual ID the allocation starts from on an empty device.
FirstUserId_Zero == <<0>>
FirstUserId == <<1>>

\* Lines 291-295: for each employee, the ID after next replaces next when the
\* device already has it.
RECURSIVE SkipLoop(_, _, _)
SkipLoop(next, ids, n) ==
    IF n = 0 THEN next
    ELSE LET test_user_id == generate_next_user_id(next)
         IN  SkipLoop(IF test_user_id \in Range(ids) THEN test_user_id ELSE next,
                      ids, n - 1)

\* Lines 286-296: while next is on the device it is replaced by the successor
\* of the attempt-th last ID, which is an IndexError past the start of the list.
RECURSIVE AttemptLoop(_, _, _, _)
AttemptLoop(next, attempt_counter, ids, n) ==
    IF next \in Range(ids)
    THEN IF attempt_counter > Len(ids) THEN [ok |-> FALSE, next |-> next]
         ELSE AttemptLoop(generate_next_user_id(ids[Len(ids) + 1 - attempt_counter]),
                          attempt_counter + 1, ids, n)
    ELSE [ok |-> TRUE, next |-> SkipLoop(next, ids, n)]

\* Lines 243-296: max_uid and next_user_id_str before the employees are visited.
Allocate(existing_users, n) ==
    LET uid_list == [k \in DOMAIN existing_users |-> existing_users[k].uid]
        ids == SortedIds([k \in DOMAIN existing_users |-> existing_users[k].user_id])
        a == AttemptLoop(generate_next_user_id(ids[Len(ids)]), 2, ids, n)
    IN  IF existing_users = <<>>
        THEN [ok |-> TRUE, max_uid |-> 0, next |-> FirstUserId]
        ELSE [ok |-> a.ok, max_uid |-> MaxUid(uid_list), next |-> a.next]

\* Lines 298-323: the employees in id order; st carries the device user rows,
\* max_uid, next_user_id_str and the set_user calls made.
RECURSIVE EmployeeLoop(_, _, _)
EmployeeLoop(st, d, e) ==
    IF e > NumEmployees THEN st
    ELSE IF \E u \in st.dus : u.employee = e /\ u.device = d
    THEN EmployeeLoop(st, d, e + 1)
    ELSE EmployeeLoop(
             [dus |-> st.dus \cup {[id |-> st.duser, attend |-> st.next, device |-> d,
                                   employee |-> e]},
              duser |-> st.duser + 1,
              max_uid |-> st.max_uid + 1,
              next |-> generate_next_user_id(st.next),
              calls |-> Append(st.calls, [uid |-> st.max_uid + 1, user_id |-> st.next,
                                          employee |-> e])],
             d, e + 1)

\* set_user on the device: a slot not in use yet is added to its users.
RECURSIVE SetUsers(_, _)
SetUsers(users, calls) ==
    IF calls = <<>> THEN users
    ELSE SetUsers(Append(users, [uid |-> Head(calls).uid, user_id |-> Head(calls).user_id]),
                  Tail(calls))

action_synchronize_employees(d) ==
    \E connection \in BOOLEAN :
        LET existing_users == zkUsers[d]
            a == Allocate(existing_users, NumEmployees)
            ok == connection /\ a.ok
            out == EmployeeLoop([dus |-> deviceUsers, duser |-> seq.duser,
                                 max_uid |-> a.max_uid, next |-> a.next,
                                 calls |-> <<>>], d, 1)
        IN  /\ syncSeen' = [device |-> d, ok |-> ok,
                            users |-> IF connection THEN existing_users ELSE <<>>,
                            had |-> {u.employee : u \in SearchByDevice(deviceUsers, d)}]
            /\ setUserCalls' = IF ok THEN out.calls ELSE <<>>
            /\ deviceUsers' = IF ok THEN out.dus ELSE deviceUsers
            /\ seq' = IF ok THEN [seq EXCEPT !.duser = out.duser] ELSE seq
            /\ zkUsers' = IF ok THEN [zkUsers EXCEPT ![d] = SetUsers(@, out.calls)]
                          ELSE zkUsers
            /\ UNCHANGED <<deviceStates, logs, attendances, createTrace, lastOp, rerun,
                           observe, zkAttendance, admsVars, raceVars>>

\* The textual IDs a device may hold at the start: up to MaxIdLen characters,
\* each the digit 1, the digit 9 or a letter.
IdStrings == UNION {[1..k -> {1, 9, Letter}] : k \in 1..MaxIdLen}

\* The ascending lists of k slots out of 1..MaxZkUsers + 1, and of k textual IDs.
UidLists(k) ==
    {us \in [1..k -> 1..(MaxZkUsers + 1)] : \A i \in 1..(k - 1) : us[i] < us[i + 1]}
IdLists(k) ==
    {ids \in [1..k -> IdStrings] : \A i \in 1..(k - 1) : StrLess(ids[i], ids[i + 1])}

NoSync == [device |-> 0, ok |-> TRUE, users |-> <<>>, had |-> {}]

\* Device 1 holds up to MaxZkUsers users, no slot and no textual ID twice, and
\* device 2 none; employee 1 has a device user on device 2 already and no one
\* has one on device 1.  The handler sorts the slots and the textual IDs apart
\* from each other, so which user holds which does not matter to it: the users
\* are taken in slot order with the textual IDs ascending.
InitSync ==
    /\ \E k \in 0..MaxZkUsers : \E us \in UidLists(k), ids \in IdLists(k) :
           zkUsers = [d \in Devices |->
                         IF d = 1 THEN [i \in 1..k |-> [uid |-> us[i], user_id |-> ids[i]]]
                         ELSE <<>>]
    /\ deviceUsers = {[id |-> 1, attend |-> <<1>>, device |-> 2, employee |-> 1]}
    /\ deviceStates = {}
    /\ logs = {}
    /\ attendances = {}
    /\ seq = [duser |-> 2, log |-> 1, att |-> 1]
    /\ createTrace = <<>>
    /\ lastOp = NoOp
    /\ rerun = FALSE
    /\ observe = "creates"
    /\ zkAttendance = [d \in Devices |-> <<>>]
    /\ setUserCalls = <<>>
    /\ syncSeen = NoSync
    /\ InitAdms

NextSync == \E d \in Devices : action_synchronize_employees(d)

SpecSync == InitSync /\ [][NextSync]_vars

---------------------------------------------------------------------------
(* Claims about ZktecoDeviceLogs.create *)

Events == {createTrace[i] : i \in DOMAIN createTrace}

\* The employee's attendances before the create, and the most recent of them.
Mine(ev) == {a \in ev.before : a.employee = ev.employee}
Top(ev) == {a \in Mine(ev) : \A b \in Mine(ev) : b.check_in <= a.check_in}
TopOpen(ev) == Top(ev) # {} /\ \A a \in Top(ev) : a.check_out = 0
TopClosed(ev) == Top(ev) # {} /\ \A a \in Top(ev) : a.check_out # 0
Ids(atts) == {a.id : a \in atts}

\* C1: a create for an employee with no attendance, or whose most recent
\* attendance has a check_out, adds exactly one attendance of that employee,
\* check_in the punch time and check_out empty, changes no existing attendance
\* and sets the log's status to '0'.
C1_CreateOpensAttendance ==
    \A ev \in Events :
        (Mine(ev) = {} \/ TopClosed(ev)) =>
            /\ ev.before \subseteq ev.after
            /\ \E a \in ev.after \ ev.before :
                   /\ ev.after \ ev.before = {a}
                   /\ a.employee = ev.employee
                   /\ a.check_in = ev.time
                   /\ a.check_out = 0
            /\ ev.status = "0"

C1_Witness ==
    \E ev \in Events :
        /\ TopClosed(ev)
        /\ ev.after # ev.before
        /\ ev.status = "0"

\* C2: a create for an employee whose most recent attendance is open, with a
\* punch time after its check_in, sets that attendance's check_out to the punch
\* time, leaves its check_in and every other attendance as they were, adds no
\* attendance, and sets the log's status to '1'.
C2_CreateClosesAttendance ==
    \A ev \in Events :
        (TopOpen(ev) /\ \A a \in Top(ev) : ev.time > a.check_in) =>
            /\ \E la \in Top(ev) :
                   ev.after = (ev.before \ {la}) \cup
                       {[id |-> la.id, employee |-> la.employee,
                         check_in |-> la.check_in, check_out |-> ev.time]}
            /\ ev.status = "1"

C2_Witness ==
    \E ev \in Events :
        /\ TopOpen(ev)
        /\ \A a \in Top(ev) : ev.time > a.check_in
        /\ ev.status = "1"
        /\ ev.after # ev.before

\* C3: a create for an employee whose most recent attendance is open, with a
\* punch time not after its check_in, leaves the attendances and all their
\* fields unchanged and sets the log's status to '2'.
C3_StalePunchChangesNothing ==
    \A ev \in Events :
        (TopOpen(ev) /\ \A a \in Top(ev) : ev.time <= a.check_in) =>
            /\ ev.after = ev.before
            /\ ev.status = "2"

C3_Witness ==
    \E ev \in Events :
        /\ TopOpen(ev)
        /\ \E a \in Top(ev) : ev.time < a.check_in
        /\ ev.status = "2"

---------------------------------------------------------------------------
(* Claims about running a handler again *)

\* C5: a pull, or a pushed payload, that repeats the run before it creates no
\* PunchLog and no Attendance: both counts are what they were after the first run.
C5_RerunCreatesNothing ==
    [][rerun' =>
          /\ Cardinality(logs') = Cardinality(logs)
          /\ seq'.log = seq.log
          /\ Cardinality(attendances') = Cardinality(attendances)
          /\ seq'.att = seq.att]_vars

C5_Witness ==
    /\ rerun
    /\ lastOp.kind = "pull"
    /\ lastOp.ok
    /\ \E l \in logs : l.duser = 0 /\ l.employee # 0

\* C6: a pull that repeats the pull before it, on the same device punches,
\* leaves every PunchLog (status and calculated flag included) and every
\* Attendance as the first pull left them.
C6_RepullChangesNothing ==
    [][(rerun' /\ lastOp'.kind = "pull") =>
          (logs' = logs /\ attendances' = attendances)]_vars

\* C7: the number of Attendance records created equals the number of stored
\* PunchLogs whose status is '0'.
C7_AttendancePerCheckIn ==
    seq.att - 1 = Cardinality({l \in logs : l.status = "0"})

---------------------------------------------------------------------------
(* Claims about action_synchronize_employees *)

Calls == {setUserCalls[k] : k \in DOMAIN setUserCalls}
SeenIds == {syncSeen.users[k].user_id : k \in DOMAIN syncSeen.users}
SeenUids == {syncSeen.users[k].uid : k \in DOMAIN syncSeen.users}

\* C8: no textual user ID passed to set_user is the user_id of a user the device
\* returned, for the first employee and for every later one.
C8_NoUsedUserId == \A c \in Calls : c.user_id \notin SeenIds

\* C9: every uid passed to set_user is greater than every uid the device
\* returned, the first is the largest returned uid plus one (1 on an empty
\* device), and no two calls of a run pass the same uid.
C9_FreshUids ==
    /\ \A c \in Calls : \A u \in SeenUids : c.uid > u
    /\ setUserCalls # <<>> =>
           \E m \in SeenUids \cup {0} :
               /\ \A u \in SeenUids : u <= m
               /\ setUserCalls[1].uid = m + 1
    /\ \A i, j \in DOMAIN setUserCalls : i # j => setUserCalls[i].uid # setUserCalls[j].uid

C9_Witness ==
    /\ Len(setUserCalls) >= 2
    /\ Cardinality(SeenUids) >= 2
    /\ \E u \in SeenUids : u + 1 \notin SeenUids /\ \E v \in SeenUids : v > u

\* The decimal numeral of k, for k below 100.
Decimal(k) == IF k < 10 THEN <<k>> ELSE <<k \div 10, k % 10>>

\* The employees with no device user on the device before the run, in id order.
Lacking == {e \in Employees : e \notin syncSeen.had}
KthLacking(k) == CHOOSE e \in Lacking : Cardinality({f \in Lacking : f < e}) = k - 1

\* C10: when the device reports no users, the k-th employee lacking a device
\* user is given the slot k and the textual ID that is the decimal of k.
C10_EmptyDeviceStartsAtOne ==
    (syncSeen.device # 0 /\ syncSeen.ok /\ syncSeen.users = <<>>) =>
        /\ Len(setUserCalls) = Cardinality(Lacking)
        /\ \A k \in DOMAIN setUserCalls :
               /\ setUserCalls[k].employee = KthLacking(k)
               /\ setUserCalls[k].uid = k
               /\ setUserCalls[k].user_id = Decimal(k)

C10_Witness ==
    /\ syncSeen.device # 0 /\ syncSeen.ok /\ syncSeen.users = <<>>
    /\ 1 \in syncSeen.had
    /\ setUserCalls # <<>>
    /\ setUserCalls[1].employee # 1

---------------------------------------------------------------------------
(* ZktecoDeviceLogs.unlink and the downstream computation *)

MaxUnlinked == 1

\* Lines 96-102: the logs left by unlink of the recordset S, and whether it
\* returned without raising.
LogsUnlink_DropsUncalculated(L, S) ==
    [ok |-> TRUE, logs |-> L \ {l \in S : ~l.calculated}]
LogsUnlink(L, S) ==
    IF \E l \in S : l.calculated THEN [ok |-> FALSE, logs |-> L]
    ELSE [ok |-> TRUE, logs |-> L \ S]

\* The downstream payroll/attendance computation consumes one log and marks it
\* calculated.
MarkCalculated ==
    \E l \in logs :
        /\ ~l.calculated
        /\ logs' = (logs \ {l}) \cup {[l EXCEPT !.calculated = TRUE]}
        /\ createTrace' = <<>>
        /\ lastOp' = [kind |-> "calculate", device |-> 0, arg |-> <<>>, ok |-> TRUE]
        /\ rerun' = FALSE
        /\ UNCHANGED <<deviceUsers, deviceStates, attendances, seq, observe,
                       zkAttendance, syncVars, admsVars, raceVars>>

\* unlink of a non-empty recordset of logs; at most MaxUnlinked logs are ever
\* deleted.  The history keeps the calculated flags found in the recordset.
ZktecoDeviceLogs_unlink ==
    \E S \in SUBSET logs :
        LET out == LogsUnlink(logs, S)
        IN  /\ S # {}
            /\ (seq.log - 1) - Cardinality(out.logs) <= MaxUnlinked
            /\ logs' = out.logs
            /\ createTrace' = <<>>
            /\ lastOp' = [kind |-> "unlink", device |-> 0,
                         arg |-> {l.calculated : l \in S}, ok |-> out.ok]
            /\ rerun' = FALSE
            /\ UNCHANGED <<deviceUsers, deviceStates, attendances, seq, observe,
                           zkAttendance, syncVars, admsVars, raceVars>>

NextStore ==
    \/ \E d \in PushDevices : action_create_device_zkteco_logs(d)
    \/ MarkCalculated
    \/ ZktecoDeviceLogs_unlink

\* The log store fed by pushed punch lines, with no history of the create calls
\* or of the handler runs: only the last unlink is recorded.
InitStore ==
    /\ deviceUsers = InitDeviceUsers
    /\ deviceStates = UNION {DefaultStates(d) : d \in PushDevices}
    /\ logs = {}
    /\ attendances = {}
    /\ seq = [duser |-> 4, log |-> 1, att |-> 1]
    /\ createTrace = <<>>
    /\ lastOp = NoOp
    /\ rerun = FALSE
    /\ observe = "store"
    /\ zkAttendance = [d \in Devices |-> <<>>]
    /\ zkUsers = [d \in Devices |-> <<>>]
    /\ setUserCalls = <<>>
    /\ syncSeen = NoSync
    /\ InitAdms

SpecStore == InitStore /\ [][NextStore]_vars

\* C11: an unlink of a set of logs holding a calculated log raises and leaves
\* every log, calculated or not, in the store; no unlink removes a log whose
\* calculated flag is set.
C11_CalculatedLogsStay ==
    [][lastOp'.kind = "unlink" =>
          /\ TRUE \in lastOp'.arg => (~lastOp'.ok /\ logs' = logs)
          /\ \A l \in logs : l.calculated => l \in logs']_vars

C11_Witness ==
    /\ lastOp.kind = "unlink"
    /\ ~lastOp.ok
    /\ lastOp.arg = {TRUE, FALSE}

---------------------------------------------------------------------------
(* Claims about the stored attendances and logs *)

\* C12: every attendance has an empty check_out or a check_out not before its
\* check_in.
C12_CheckOutNotBeforeCheckIn ==
    \A a \in attendances : a.check_out = 0 \/ a.check_out >= a.check_in

C12_Witness ==
    /\ \E a \in attendances : a.check_out # 0
    /\ \E ev \in Events : ev.status = "1" /\ \E a \in ev.after \ ev.before : a.check_out = ev.time

\* An ADMS device that is polled as well: action_pull_attendance_logs_new pulls
\* the devices that have is_adms set, which are the ones that push their lines.
NextBoth ==
    \/ \E d \in PushDevices : Punch(d)
    \/ \E d \in PushDevices : action_pull_attendance_logs(d)
    \/ \E d \in PushDevices : action_create_device_zkteco_logs(d)

SpecBoth == InitStore /\ [][NextBoth]_vars

\* C13: no two stored logs have the same UTC punch time and the same employee,
\* or the same device user.
C13_OneLogPerPunch ==
    \A l1, l2 \in logs :
        (/\ l1.time = l2.time
         /\ \/ (l1.employee # 0 /\ l1.employee = l2.employee)
            \/ (l1.duser # 0 /\ l1.duser = l2.duser)) => l1 = l2

---------------------------------------------------------------------------
(* The command queue: requests, polls and acknowledgments *)

MaxDuserId == 5

\* A command row: id, name, device, status, employee (0: none), pin and
\* execution_log.  The execution log names the command and the device user ID;
\* it is a one-element sequence, so that logs concatenate.
ExecutionLog(id, name, pin) == <<[id |-> id, name |-> name, pin |-> pin]>>

\* The rows in id order, the order a search returns them in.
RECURSIVE InIdOrder(_)
InIdOrder(rows) ==
    IF rows = {} THEN <<>>
    ELSE LET r == CHOOSE x \in rows : \A q \in rows : x.id <= q.id
         IN  <<r>> \o InIdOrder(rows \ {r})

RECURSIVE Concat(_)
Concat(list) == IF list = <<>> THEN <<>> ELSE Head(list) \o Concat(Tail(list))

\* Lines 690-693: the commands of device d that are pending.
PendingCommands_AnyDevice(C, d) == {c \in C : c.status = "pending"}
PendingCommands(C, d) == {c \in C : c.status = "pending" /\ c.device = d}

\* Lines 694-698: combined_log and the commands after the poll.
Poll(C, d) ==
    LET pending_commands == PendingCommands(C, d)
        ordered == InIdOrder(pending_commands)
    IN  [response |-> Concat([k \in 1..Len(ordered) |-> ordered[k].execution_log]),
         commands |-> {IF c \in pending_commands THEN [c EXCEPT !.status = "executed"]
                       ELSE c : c \in C}]

action_create_zkteco_device_user_commands(d) ==
    LET out == Poll(commands, d)
    IN  /\ commands' = out.commands
        /\ cmdOp' = [kind |-> "poll", device |-> d, id |-> 0,
                     response |-> out.response, found |-> 0]
        /\ delivered' = [id \in 1..MaxCommands |->
                             delivered[id] + Cardinality({k \in 1..Len(out.response) :
                                                             out.response[k].id = id})]
        /\ UNCHANGED <<deviceUsers, deviceStates, logs, attendances, seq, createTrace,
                       lastOp, rerun, observe, zkAttendance, syncVars, fingerprints, fpOp,
                       usernames, raceVars>>

\* The name of employee e, and the display names a device can send.
EmployeeName(e) == e
UserNames == 1..(NumEmployees + 1)

\* zkteco_device_username = name on the device users with the given ids.
SetName(N, ids, name) ==
    {n \in N : n.id \notin ids} \cup {[id |-> i, name |-> name] : i \in ids}

\* Line 705: search([('id', '=', command_record_id)]).
SearchCommand(C, id) == {c \in C : c.id = id}

\* Lines 709-730, the DATA branch: the device users after it.
AckData_Recreate(dus, next, d, c, device_user) ==
    (dus \ device_user) \cup {[id |-> next, attend |-> c.execution_log[1].pin, device |-> d,
                                employee |-> c.employee]}
AckData(dus, next, d, c, device_user) ==
    IF device_user = {}
    THEN dus \cup {[id |-> next, attend |-> c.execution_log[1].pin, device |-> d,
                    employee |-> c.employee]}
    ELSE {IF u \in device_user THEN [u EXCEPT !.employee = c.employee] ELSE u : u \in dus}

\* Lines 732-741, the DEL branch: device_user.unlink().
AckDel(dus, d, c) == dus \ SearchDeviceUsers(dus, c.execution_log[1].pin, d)

\* Lines 709-752: which branch a command takes.
AckBranch(c) ==
    IF c.employee # 0 /\ c.name \in {"DATA", "DEL", "UPDATE"} THEN c.name
    ELSE IF c.name \in {"USERINFO", "CHECK"} THEN "ACK"
    ELSE "NONE"

\* The acknowledgment arriving at device d for the command id (0: no id).  The
\* name in a DATA command's execution log is the name of the command's
\* employee.  Device user ids stop at MaxDuserId.
action_check_zkteco_device_command_revert_res(d, command_record_id) ==
    LET command_record == SearchCommand(commands, command_record_id)
        c == CHOOSE x \in command_record : TRUE
        branch == AckBranch(c)
        device_user ==
            SearchDeviceUsers(deviceUsers,
                              IF branch = "UPDATE" THEN c.pin ELSE c.execution_log[1].pin, d)
        done == (commands \ {c}) \cup {[c EXCEPT !.status = "success"]}
    IN  IF command_record_id = 0 \/ command_record = {}
        THEN /\ cmdOp' = [kind |-> "ack", device |-> d, id |-> command_record_id,
                          response |-> <<>>, found |-> 0]
             /\ UNCHANGED <<commands, deviceUsers, seq, usernames>>
             /\ UNCHANGED <<deviceStates, logs, attendances, createTrace, lastOp, rerun,
                            observe, zkAttendance, syncVars, fingerprints, fpOp, raceVars, delivered>>
        ELSE /\ (branch = "DATA" /\ device_user = {}) => seq.duser <= MaxDuserId
             /\ cmdOp' = [kind |-> "ack", device |-> d, id |-> command_record_id,
                          response |-> <<>>,
                          found |-> IF branch \in {"DATA", "DEL", "UPDATE"}
                                    THEN Cardinality(device_user) ELSE 0]
             /\ commands' = IF branch = "NONE" THEN commands ELSE done
             /\ deviceUsers' =
                    IF branch = "DATA" THEN AckData(deviceUsers, seq.duser, d, c, device_user)
                    ELSE IF branch = "DEL" THEN AckDel(deviceUsers, d, c)
                    ELSE deviceUsers
             /\ seq' = IF branch = "DATA" /\ device_user = {}
                       THEN [seq EXCEPT !.duser = @ + 1] ELSE seq
             /\ usernames' =
                    IF branch = "DATA" /\ device_user = {}
                    THEN SetName(usernames, {seq.duser}, EmployeeName(c.employee))
                    ELSE IF branch \in {"DATA", "UPDATE"}
                    THEN SetName(usernames, {u.id : u \in device_user}, EmployeeName(c.employee))
                    ELSE usernames
             /\ UNCHANGED <<deviceStates, logs, attendances, createTrace, lastOp, rerun,
                            observe, zkAttendance, syncVars, fingerprints, fpOp, raceVars, delivered>>

\* A row inserted into zkteco.dcmmand as pending.
NewCommand(C, name, d, employee, pin) ==
    LET id == Cardinality(C) + 1
    IN  [id |-> id, name |-> name, device |-> d, status |-> "pending",
         employee |-> employee, pin |-> pin, execution_log |-> ExecutionLog(id, name, pin)]

\* Lines 766-778 and 782-794: a USERINFO or CHECK command is created unless the
\* device has a pending one of that name.
PendingNamed_None(C, name, d) == {}
PendingNamed(C, name, d) ==
    {c \in C : c.device = d /\ c.name = name /\ c.status = "pending"}

RequestCommand(name, d) ==
    LET pending == PendingNamed(commands, name, d)
    IN  /\ pending = {} => Cardinality(commands) < MaxCommands
        /\ commands' = IF pending = {} THEN commands \cup {NewCommand(commands, name, d, 0, <<>>)}
                       ELSE commands
        /\ cmdOp' = [kind |-> "request", device |-> d, id |-> 0, response |-> <<>>,
                     found |-> Cardinality(pending)]
        /\ UNCHANGED <<deviceUsers, deviceStates, logs, attendances, seq, createTrace,
                       lastOp, rerun, observe, zkAttendance, syncVars, fingerprints, fpOp, usernames, raceVars, delivered>>

action_zkteco_device_user_data_download(d) == RequestCommand("USERINFO", d)
action_check_device_connection(d) == RequestCommand("CHECK", d)

\* The export, removal or rename of an employee's device user queues a DATA,
\* DEL or UPDATE command for device d, with the employee it is for when there
\* is one.
create_export_command(d) ==
    \E name \in {"DATA", "DEL", "UPDATE"}, employee \in {0} \cup Employees, pin \in UserIds :
        /\ Cardinality(commands) < MaxCommands
        /\ commands' = commands \cup {NewCommand(commands, name, d, employee, pin)}
        /\ cmdOp' = [kind |-> "request", device |-> d, id |-> 0, response |-> <<>>,
                     found |-> 0]
        /\ UNCHANGED <<deviceUsers, deviceStates, logs, attendances, seq, createTrace,
                       lastOp, rerun, observe, zkAttendance, syncVars, fingerprints, fpOp, usernames, raceVars, delivered>>

NextQueue ==
    \/ \E d \in Devices : create_export_command(d)
    \/ \E d \in Devices : action_zkteco_device_user_data_download(d)
    \/ \E d \in Devices : action_check_device_connection(d)
    \/ \E d \in Devices : action_create_zkteco_device_user_commands(d)
    \/ \E d \in Devices, id \in 0..MaxCommands :
           action_check_zkteco_device_command_revert_res(d, id)

SpecQueue == InitStore /\ [][NextQueue]_vars

\* The queue of an ADMS device next to the employee synchronisation, which
\* registers device users as well.
NextQueueSync ==
    \/ \E d \in PushDevices : create_export_command(d)
    \/ \E d \in PushDevices : action_create_zkteco_device_user_commands(d)
    \/ \E d \in PushDevices, id \in 1..MaxCommands :
           action_check_zkteco_device_command_revert_res(d, id)
    \/ \E d \in PushDevices : seq.duser <= MaxDuserId /\ action_synchronize_employees(d)

SpecQueueSync == InitStore /\ [][NextQueueSync]_vars

---------------------------------------------------------------------------
(* Claims about the command queue *)

\* C14: a command's status changes only from pending to executed and from
\* executed to success or failed.
C14_StatusTransitions ==
    [][\A c \in commands : \A c2 \in commands' :
           c2.id = c.id =>
               \/ c2.status = c.status
               \/ (c.status = "pending" /\ c2.status = "executed")
               \/ (c.status = "executed" /\ c2.status \in {"success", "failed"})]_vars

\* C15: a poll of device d answers with the execution logs of exactly the
\* commands pending for d, sets those to executed and changes no other command.
C15_PollTakesPending ==
    [][cmdOp'.kind = "poll" =>
          LET P == {c \in commands : c.device = cmdOp'.device /\ c.status = "pending"}
              response == cmdOp'.response
          IN  /\ Len(response) = Cardinality(P)
              /\ {response[k] : k \in DOMAIN response} = {c.execution_log[1] : c \in P}
              /\ commands' = (commands \ P) \cup
                     {[id |-> c.id, name |-> c.name, device |-> c.device,
                       status |-> "executed", employee |-> c.employee, pin |-> c.pin,
                       execution_log |-> c.execution_log] : c \in P}]_vars

C15_Witness ==
    /\ cmdOp.kind = "poll"
    /\ Len(cmdOp.response) >= 1
    /\ \E c \in commands : c.device = cmdOp.device /\ c.status = "executed"
    /\ \E c \in commands : c.device # cmdOp.device /\ c.status = "pending"

\* C16: after the acknowledgment of a DATA command that has an employee, the
\* device holds exactly one device user with the ID of the payload, linked to
\* that employee, and the command is in status success.
C16_DataLinksOneDeviceUser ==
    [][\A d \in Devices, id \in 1..MaxCommands :
           action_check_zkteco_device_command_revert_res(d, id) =>
               \A c \in commands :
                   (c.id = id /\ c.name = "DATA" /\ c.employee # 0) =>
                       LET rows == {u \in deviceUsers' : /\ u.device = d
                                                         /\ u.attend = c.execution_log[1].pin}
                       IN  /\ Cardinality(rows) = 1
                           /\ \A u \in rows : u.employee = c.employee
                           /\ \A c2 \in commands' : c2.id = id => c2.status = "success"]_vars

\* C17: after the acknowledgment of a DEL command on device d, d has no device
\* user with the ID of the payload, the command is in status success, and the
\* device users of other devices or with other IDs are as before.
C17_DelRemovesDeviceUser ==
    [][\A d \in Devices, id \in 1..MaxCommands :
           action_check_zkteco_device_command_revert_res(d, id) =>
               \A c \in commands :
                   (c.id = id /\ c.name = "DEL") =>
                       LET named(u) == u.device = d /\ u.attend = c.execution_log[1].pin
                       IN  /\ \A u \in deviceUsers' : ~named(u)
                           /\ \A c2 \in commands' : c2.id = id => c2.status = "success"
                           /\ {u \in deviceUsers : ~named(u)} = deviceUsers']_vars

\* C18: an acknowledgment that returns for a command in status executed leaves
\* the command in status success or failed.
C18_AckLeavesNoneExecuted ==
    [][\A d \in Devices, id \in 1..MaxCommands :
           action_check_zkteco_device_command_revert_res(d, id) =>
               \A c \in commands :
                   (c.id = id /\ c.status = "executed") =>
                       \A c2 \in commands' :
                           c2.id = id => c2.status \in {"success", "failed"}]_vars

---------------------------------------------------------------------------
(* action_create_device_user_fingerprint and _base64_fix_padding *)

MaxTemplateLen == 3
MaxFingerprints == 2

\* A base64 character is its 6-bit value, 0..63; Pad is the character '='.
Pad == 64
TemplateChars == {1, 63}

\* values[5].split('=')[1]: the template text of a payload, which has no '='.
Templates == SeqsUpTo(TemplateChars, MaxTemplateLen)

Repeat(c, n) == [i \in 1..n |-> c]

\* Lines 682-684: the string handed to the decoder.
FixPadding_Remainder(encoded_string) ==
    LET padding_needed == Len(encoded_string) % 4
    IN  IF padding_needed # 0 THEN encoded_string \o Repeat(Pad, padding_needed)
        ELSE encoded_string
FixPadding(encoded_string) ==
    LET padding_needed == Len(encoded_string) % 4
    IN  IF padding_needed # 0 THEN encoded_string \o Repeat(Pad, 4 - padding_needed)
        ELSE encoded_string

NotPad(c) == c # Pad

\* The bytes of a run of data characters: three per four characters, one for
\* a rest of two, two for a rest of three; a rest of one is an error.
RECURSIVE DecodeData(_)
DecodeData(data) ==
    IF Len(data) >= 4
    THEN LET n == data[1] * 262144 + data[2] * 4096 + data[3] * 64 + data[4]
             rest == DecodeData(SubSeq(data, 5, Len(data)))
         IN  [ok |-> rest.ok,
              bytes |-> <<n \div 65536, (n \div 256) % 256, n % 256>> \o rest.bytes]
    ELSE IF Len(data) = 0 THEN [ok |-> TRUE, bytes |-> <<>>]
    ELSE IF Len(data) = 1 THEN [ok |-> FALSE, bytes |-> <<>>]
    ELSE IF Len(data) = 2
    THEN [ok |-> TRUE, bytes |-> <<(data[1] * 64 + data[2]) \div 16>>]
    ELSE LET n == data[1] * 4096 + data[2] * 64 + data[3]
         IN  [ok |-> TRUE, bytes |-> <<n \div 1024, (n \div 4) % 256>>]

\* base64.b64decode of a padded string.
B64Decode(padded) == DecodeData(SelectSeq(padded, NotPad))

\* base64.b64encode.
RECURSIVE B64Encode(_)
B64Encode(bytes) ==
    IF Len(bytes) >= 3
    THEN LET n == bytes[1] * 65536 + bytes[2] * 256 + bytes[3]
         IN  <<n \div 262144, (n \div 4096) % 64, (n \div 64) % 64, n % 64>>
                 \o B64Encode(SubSeq(bytes, 4, Len(bytes)))
    ELSE IF Len(bytes) = 0 THEN <<>>
    ELSE IF Len(bytes) = 1
    THEN <<bytes[1] \div 4, (bytes[1] % 4) * 16, Pad, Pad>>
    ELSE LET n == bytes[1] * 256 + bytes[2]
         IN  <<n \div 1024, (n \div 16) % 64, (n % 16) * 4, Pad>>

\* Lines 680-686: the padded string, whether the decoder accepted it, and the
\* re-encoded template.
_base64_fix_padding(encoded_string) ==
    LET padded == FixPadding(encoded_string)
        decoded_data == B64Decode(padded)
    IN  [ok |-> decoded_data.ok, padded |-> padded,
         value |-> IF decoded_data.ok THEN B64Encode(decoded_data.bytes) ELSE <<>>]

\* Lines 665-668: the templates of (device, device user).
ExistingFp_None(F, d, duser) == {}
ExistingFp(F, d, duser) == {f \in F : f.device = d /\ f.duser = duser}

\* A payload of device d for user_id with the given template text.  A template
\* the decoder rejects raises before anything is stored.
action_create_device_user_fingerprint(d) ==
    \E user_device_id \in UserIds, fingerprint_template \in Templates :
        LET fixed_template == _base64_fix_padding(fingerprint_template)
            found == First(SearchDeviceUsers(deviceUsers, user_device_id, d))
            db_user_device ==
                IF found # {} THEN CHOOSE u \in found : TRUE
                ELSE [id |-> seq.duser, attend |-> user_device_id, device |-> d,
                      employee |-> 0]
            existing_fp == ExistingFp(fingerprints, d, db_user_device.id)
        IN  /\ fpOp' = [device |-> d, user_id |-> user_device_id,
                        input |-> fingerprint_template, padded |-> fixed_template.padded,
                        ok |-> fixed_template.ok]
            /\ IF ~fixed_template.ok
               THEN UNCHANGED <<deviceUsers, seq, fingerprints>>
               ELSE /\ deviceUsers' = deviceUsers \cup {db_user_device}
                    /\ seq' = IF found # {} THEN seq ELSE [seq EXCEPT !.duser = @ + 1]
                    /\ fingerprints' =
                           IF existing_fp # {}
                           THEN {IF f \in existing_fp
                                 THEN [f EXCEPT !.template = fixed_template.value]
                                 ELSE f : f \in fingerprints}
                           ELSE fingerprints \cup
                                    {[id |-> Cardinality(fingerprints) + 1,
                                      duser |-> db_user_device.id, device |-> d,
                                      template |-> fixed_template.value]}
                    /\ Cardinality(fingerprints') <= MaxFingerprints
            /\ UNCHANGED <<deviceStates, logs, attendances, createTrace, lastOp, rerun,
                           observe, zkAttendance, syncVars, commands, cmdOp, usernames, raceVars, delivered>>

NextFingerprint == \E d \in Devices : action_create_device_user_fingerprint(d)

SpecFingerprint == InitStore /\ [][NextFingerprint]_vars

\* C19: the decoder is handed the input followed by the fewest '=' that make
\* its length a multiple of 4.
C19_FewestPadding ==
    fpOp.device # 0 =>
        \E k \in 0..3 :
            /\ (Len(fpOp.input) + k) % 4 = 0
            /\ \A j \in 0..(k - 1) : (Len(fpOp.input) + j) % 4 # 0
            /\ fpOp.padded = fpOp.input \o [i \in 1..k |-> Pad]

C19_Witness ==
    /\ fpOp.device # 0
    /\ fpOp.ok
    /\ Len(fpOp.input) = 3
    /\ fpOp.padded = fpOp.input \o <<Pad>>

\* C20: a payload leaves at most one template per (device, device user); the
\* template of its pair holds the bytes of the payload's template, the other
\* templates are as before, and no row is inserted when the pair had one.
C20_OneTemplatePerPair ==
    [][/\ \A f1, f2 \in fingerprints' :
              (f1.device = f2.device /\ f1.duser = f2.duser) => f1 = f2
       /\ fpOp'.ok =>
              \E u \in deviceUsers' :
                  /\ u.device = fpOp'.device /\ u.attend = fpOp'.user_id
                  /\ \E f \in fingerprints' :
                         /\ f.device = u.device /\ f.duser = u.id
                         /\ B64Decode(f.template) = B64Decode(fpOp'.padded)
                         /\ fingerprints' \ {f} =
                                {g \in fingerprints : ~(g.device = u.device /\ g.duser = u.id)}
                         /\ (\E g \in fingerprints : g.device = u.device /\ g.duser = u.id)
                                => Cardinality(fingerprints') = Cardinality(fingerprints)
       /\ ~fpOp'.ok => fingerprints' = fingerprints]_vars

C20_Witness ==
    /\ fpOp.ok
    /\ fpOp.device # 0
    /\ Cardinality(fingerprints) = 2
    /\ \E f \in fingerprints :
           /\ f.device = fpOp.device
           /\ f.id < Cardinality(fingerprints)
           /\ \E u \in deviceUsers : u.id = f.duser /\ u.attend = fpOp.user_id
           /\ B64Decode(f.template) = B64Decode(fpOp.padded)
           /\ f.template # fpOp.padded

---------------------------------------------------------------------------
(* Claims about errors during a pull *)

\* A step of action_pull_attendance_logs on device d whose connect() succeeded.
PullConnected(d) ==
    /\ lastOp'.kind = "pull"
    /\ lastOp'.device = d
    /\ \E tb \in {"asc", "desc"} :
           LET out == PullRun(Store, deviceUsers, d, TRUE, zkAttendance[d], tb)
           IN  logs' = out.logs /\ attendances' = out.atts /\ seq' = out.seq

\* C21: after a connected pull of device d, every punch the device holds that
\* has a convertible local time and resolves to exactly one device user is
\* stored as a log, whatever the other punches of the batch are.
C21_BatchSurvivesRecordError ==
    [][\A d \in PullDevices :
          PullConnected(d) =>
              \A i \in 1..Len(zkAttendance[d]) :
                  LET p == zkAttendance[d][i]
                      us == SearchDeviceUsers(deviceUsers, p.user_id, d)
                  IN  (p.timestamp \notin DstLocal(d) /\ Cardinality(us) = 1) =>
                          \E l \in logs' :
                              /\ l.employee = (CHOOSE u \in us : TRUE).employee
                              /\ l.time = p.timestamp + TzShift(d)]_vars

---------------------------------------------------------------------------
(* action_pull_attendance_logs_new *)

\* Lines 456-467: the devices are visited in id order from device d on; a
\* device with is_adms set is pulled, and the first pull that raises is raised
\* again, which ends the loop.  attempted is the set of devices pulled.
RECURSIVE PullAll(_, _, _, _, _, _, _)
PullAll(st, dus, adms, connection, raw, d, tb) ==
    IF d \notin Devices THEN [out |-> st, attempted |-> {}]
    ELSE IF d \notin adms THEN PullAll(st, dus, adms, connection, raw, d + 1, tb)
    ELSE CHOOSE run \in
             {IF ~out.ok THEN [out |-> out, attempted |-> {d}]
              ELSE LET rest == PullAll(out, dus, adms, connection, raw, d + 1, tb)
                   IN  [out |-> rest.out, attempted |-> {d} \cup rest.attempted] :
                  out \in {PullRun(st, dus, d, connection[d], raw[d], tb)}} : TRUE

\* The scheduled pull of all devices, adms being the devices with is_adms set.
\* A raise rolls back what the earlier devices of the loop stored.
action_pull_attendance_logs_new(adms) ==
    \E connection \in [Devices -> BOOLEAN], tb \in {"asc", "desc"} :
        LET run == PullAll(Store, deviceUsers, adms, connection, zkAttendance, 1, tb)
            out == IF run.out.ok THEN run.out ELSE [Store EXCEPT !.ok = FALSE]
        IN  /\ Cardinality(out.logs) <= MaxLogs
            /\ logs' = out.logs
            /\ attendances' = out.atts
            /\ seq' = out.seq
            /\ Record(out.trace, [kind |-> "pull_new", device |-> 0,
                                  arg |-> run.attempted, ok |-> out.ok])
            /\ UNCHANGED <<deviceUsers, deviceStates, zkAttendance, syncVars, admsVars, raceVars>>

\* Two ADMS devices that people punch on and the scheduled pull visits; the
\* devices hold at most MaxPunches punches together.
NextPullAll ==
    \/ \E d \in Devices :
           /\ Len(zkAttendance[1]) + Len(zkAttendance[2]) < MaxPunches
           /\ Punch(d)
    \/ action_pull_attendance_logs_new(Devices)

InitPullAll ==
    /\ deviceUsers = InitDeviceUsers
    /\ deviceStates = UNION {DefaultStates(d) : d \in Devices}
    /\ logs = {}
    /\ attendances = {}
    /\ seq = [duser |-> 4, log |-> 1, att |-> 1]
    /\ createTrace = <<>>
    /\ lastOp = NoOp
    /\ rerun = FALSE
    /\ observe = "reruns"
    /\ zkAttendance = [d \in Devices |-> <<>>]
    /\ zkUsers = [d \in Devices |-> <<>>]
    /\ setUserCalls = <<>>
    /\ syncSeen = NoSync
    /\ InitAdms

SpecPullAll == InitPullAll /\ [][NextPullAll]_vars

\* C22: the scheduled pull attempts the pull on every ADMS device, whether or
\* not the pull of an earlier device failed.
C22_EveryDeviceAttempted ==
    [][lastOp'.kind = "pull_new" => lastOp'.arg = Devices]_vars

---------------------------------------------------------------------------
(* ZktecoDeviceLogs.create in two sessions at once *)

\* Each session runs create in a transaction of its own (REPEATABLE READ, the
\* isolation level of the ORM's cursors): the search of lines 116-119 sees the
\* store as it was when the transaction began, an insert never conflicts, and
\* a write to a row that another transaction changed meanwhile fails with a
\* serialization error, after which the call is run again from the start.

\* The values of a log created for employee e at UTC time t.
RaceVals(e, t) ==
    [duser |-> 0, employee |-> e, time |-> t, status |-> "2", calculated |-> FALSE,
     timestamp |-> 0]

\* Session s enters create and reads the employee's most recent attendance.  A
\* session enters only while no other call has finished, so that the calls of
\* one round overlap.
CreateRead(s) ==
    \E e \in Employees, t \in LocalTimes, tb \in {"asc", "desc"} :
        /\ txns[s].pc = "idle"
        /\ \A o \in Sessions : txns[o].pc # "done"
        /\ (seq.log - 1) + Cardinality({o \in Sessions : txns[o].pc = "read"}) < MaxLogs
        /\ txns' = [txns EXCEPT ![s] = [pc |-> "read", vals |-> RaceVals(e, t),
                                        last |-> LastAttendance(attendances, e, tb),
                                        tb |-> tb]]
        /\ raceBase' = IF \A o \in Sessions : txns[o].pc = "idle"
                       THEN [logs |-> logs, atts |-> attendances, seq |-> seq]
                       ELSE raceBase
        /\ UNCHANGED <<deviceUsers, deviceStates, logs, attendances, seq, createTrace,
                       lastOp, rerun, observe, zkAttendance, syncVars, admsVars>>

\* Session s writes and commits, or meets a row changed since it read and
\* starts over with a fresh read.
CreateWrite(s) ==
    LET t == txns[s]
        la == CHOOSE a \in t.last : TRUE
        closes == ~BranchNew(t.last) /\ ~BranchStale(t.vals.time, la)
        out == LogCreateFrom([logs |-> logs, atts |-> attendances, seq |-> seq,
                              trace |-> <<>>], t.vals, t.last)
    IN  /\ t.pc = "read"
        /\ IF closes /\ la \notin attendances
           THEN /\ txns' = [txns EXCEPT ![s].last =
                                LastAttendance(attendances, t.vals.employee, t.tb)]
                /\ UNCHANGED <<logs, attendances, seq>>
           ELSE /\ txns' = [txns EXCEPT ![s].pc = "done"]
                /\ logs' = out.logs
                /\ attendances' = out.atts
                /\ seq' = out.seq
        /\ UNCHANGED <<deviceUsers, deviceStates, createTrace, lastOp, rerun, observe,
                       zkAttendance, syncVars, admsVars, raceBase>>

\* The calls of the round have returned.
CreateReturn ==
    /\ \A s \in Sessions : txns[s].pc # "read"
    /\ \E s \in Sessions : txns[s].pc = "done"
    /\ txns' = [s \in Sessions |-> NoTxn]
    /\ raceBase' = NoBase
    /\ UNCHANGED <<deviceUsers, deviceStates, logs, attendances, seq, createTrace,
                   lastOp, rerun, observe, zkAttendance, syncVars, admsVars>>

NextRace ==
    \/ \E s \in Sessions : CreateRead(s)
    \/ \E s \in Sessions : CreateWrite(s)
    \/ CreateReturn

SpecRace == InitStore /\ [][NextRace]_vars

\* The attendances without their ids: how many rows there are of each
\* (employee, check_in, check_out).
Shape(atts) ==
    {[employee |-> a.employee, check_in |-> a.check_in, check_out |-> a.check_out,
      n |-> Cardinality({b \in atts : /\ b.employee = a.employee
                                     /\ b.check_in = a.check_in
                                     /\ b.check_out = a.check_out})] : a \in atts}

\* The attendances after create(first) then create(second), one after the other.
InOrder(base, first, second) ==
    {LogCreate(LogCreate([logs |-> base.logs, atts |-> base.atts, seq |-> base.seq,
                          trace |-> <<>>], first, tb1), second, tb2).atts :
         tb1, tb2 \in {"asc", "desc"}}

\* C23: when two overlapping creations for the same employee have both
\* finished, the attendances are those of one of the two sequential orders.
C23_RaceIsSerializable ==
    (/\ \A s \in Sessions : txns[s].pc = "done"
     /\ txns[1].vals.employee = txns[2].vals.employee) =>
        \E atts \in InOrder(raceBase, txns[1].vals, txns[2].vals)
                        \cup InOrder(raceBase, txns[2].vals, txns[1].vals) :
            Shape(attendances) = Shape(atts)

---------------------------------------------------------------------------
(* Pulls over logs that the downstream computation has consumed *)

NextCalculated ==
    \/ \E d \in PullDevices : Punch(d)
    \/ \E d \in PullDevices : action_pull_attendance_logs(d)
    \/ MarkCalculated

SpecCalculated == InitRerun /\ [][NextCalculated]_vars

\* C24: a pull leaves every calculated log as it was, its status and its
\* calculated flag included.
C24_PullKeepsCalculatedLogs ==
    [][lastOp'.kind = "pull" => \A l \in logs : l.calculated => l \in logs']_vars

---------------------------------------------------------------------------
(* Punches at DST local times *)

\* Device 1, whose zone has DST, pulled and pushing; it holds at most MaxLines
\* punches.
NextDst ==
    \/ \E d \in PullDevices : Len(zkAttendance[d]) < MaxLines /\ Punch(d)
    \/ \E d \in PullDevices : action_pull_attendance_logs(d)
    \/ \E d \in PullDevices : action_create_device_zkteco_logs(d)

SpecDst == InitPullAll /\ [][NextDst]_vars

\* C25: a pull stores no log of a punch at a DST local time, and a pushed
\* payload with a line at a DST local time is refused and stores no log of it.
C25_DstPunchRejected ==
    [][\A d \in Devices :
          /\ (lastOp'.kind = "pull" /\ lastOp'.device = d) =>
                 \A l \in logs' \ logs : (l.time - TzShift(d)) \notin DstLocal(d)
          /\ (lastOp'.kind = "push" /\ lastOp'.device = d) =>
                 \A k \in 1..Len(lastOp'.arg) :
                     lastOp'.arg[k].local \in DstLocal(d) =>
                         /\ ~lastOp'.ok
                         /\ \A l \in logs' \ logs : l.timestamp # lastOp'.arg[k].local]_vars

---------------------------------------------------------------------------
(* Claims about the status of a stored log *)

\* The entries a pull of device d processes, in the order it processes them.
PullEntries(d) == SortedAttendance(PullResolve(deviceUsers, d, zkAttendance[d], 1).list)

\* The status the alternation rule gives entry k: CheckIn for a user's first,
\* third, ... entry, CheckOut for the second, fourth, ...
Alternation(entries, k) ==
    IF Cardinality({j \in 1..k : entries[j].user_id = entries[k].user_id}) % 2 = 1
    THEN "0" ELSE "1"

\* C26: every log a successful pull creates has the status the alternation
\* rule gives to an entry of the batch with the log's employee and time.
C26_PullStatusAlternates ==
    [][\A d \in PullDevices :
          (lastOp'.kind = "pull" /\ lastOp'.device = d /\ lastOp'.ok) =>
              \A l \in logs' \ logs :
                  \E k \in 1..Len(PullEntries(d)) :
                      /\ PullEntries(d)[k].employee = l.employee
                      /\ PullEntries(d)[k].time = l.time
                      /\ l.status = Alternation(PullEntries(d), k)]_vars

\* C27: a log created for a pushed line has the status the device's state
\* table gives the line's status code, with or without a linked employee.
C27_PushStatusFromStateTable ==
    [][\A d \in PushDevices :
          (lastOp'.kind = "push" /\ lastOp'.device = d) =>
              \A k \in 1..Len(lastOp'.arg) :
                  \A l \in logs' \ logs :
                      (/\ l.timestamp = Timestamp(lastOp'.arg[k].local)
                       /\ \E u \in SearchDeviceUsers(deviceUsers', lastOp'.arg[k].user_id, d) :
                              u.id = l.duser) =>
                          l.status = PunchStatus(deviceStates, d, lastOp'.arg[k].code)]_vars

---------------------------------------------------------------------------
(* HrAttendance.unlink *)

\* Lines 297-304: the logs of the attendance's employee punched at its
\* check_in or at its check_out.
RelatedLogs_CheckInOnly(L, a) ==
    {l \in L : l.employee = a.employee /\ l.time = a.check_in}
RelatedLogs(L, a) ==
    {l \in L : l.employee = a.employee /\ (l.time = a.check_in \/ l.time = a.check_out)}

\* Lines 296-307: the logs after the loop over the attendances S.
ResetCalculated(L, S) ==
    {IF \E a \in S : l \in RelatedLogs(L, a) THEN [l EXCEPT !.calculated = FALSE] ELSE l :
         l \in L}

\* unlink of a non-empty recordset of attendances.  The history keeps the
\* attendances deleted and the calculated logs there were.
HrAttendance_unlink ==
    \E S \in SUBSET attendances :
        /\ S # {}
        /\ logs' = ResetCalculated(logs, S)
        /\ attendances' = attendances \ S
        /\ createTrace' = <<>>
        /\ lastOp' = [kind |-> "attendance_unlink", device |-> 0,
                      arg |-> [deleted |-> S, calculated |-> {l \in logs : l.calculated}],
                      ok |-> TRUE]
        /\ rerun' = FALSE
        /\ UNCHANGED <<deviceUsers, deviceStates, seq, observe, zkAttendance, syncVars,
                       admsVars, raceVars>>

\* Device 1 pushing the punches of its two employees, the downstream
\* computation and the deletion of attendances.
NextAttendance ==
    \/ \E d \in PullDevices : action_create_device_zkteco_logs(d)
    \/ MarkCalculated
    \/ HrAttendance_unlink

SpecAttendance == InitPullAll /\ [][NextAttendance]_vars

\* C28: deleting attendances clears the calculated flag of the logs of the
\* same employee punched at the check_in or check_out of a deleted attendance,
\* which can then be deleted; every other log stays as it was.
C28_AttendanceUnlinkResetsLogs ==
    [][lastOp'.kind = "attendance_unlink" =>
          LET S == lastOp'.arg.deleted
              related == {l \in logs : \E a \in S :
                              /\ l.employee = a.employee
                              /\ l.time \in {a.check_in, a.check_out}}
          IN  /\ logs' = (logs \ related) \cup {[l EXCEPT !.calculated = FALSE] : l \in related}
              /\ \A l \in logs' :
                     (\E a \in S : l.employee = a.employee
                                   /\ l.time \in {a.check_in, a.check_out})
                         => LogsUnlink(logs', {l}).ok]_vars

C28_Witness ==
    /\ lastOp.kind = "attendance_unlink"
    /\ \E a \in lastOp.arg.deleted, l \in lastOp.arg.calculated :
           /\ l.employee = a.employee
           /\ l.time = a.check_out
           /\ [l EXCEPT !.calculated = FALSE] \in logs
    /\ \E l \in lastOp.arg.calculated : l \in logs

---------------------------------------------------------------------------
(* action_create_employee_device_user *)

\* Lines 556-558: the device users with the payload's device user ID.
ExistingEmployee(dus, device_user_id, d) == {u \in dus : u.attend = device_user_id}

\* A user payload of device d: a device user ID and a display name.  The
\* history keeps the payload and the number of device users found.
action_create_employee_device_user(d) ==
    \E device_user_id \in UserIds, device_user_name \in UserNames :
        LET existing_employee == ExistingEmployee(deviceUsers, device_user_id, d)
        IN  /\ existing_employee = {} => seq.duser <= MaxDuserId
            /\ deviceUsers' =
                   IF existing_employee # {} THEN deviceUsers
                   ELSE deviceUsers \cup {[id |-> seq.duser, attend |-> device_user_id,
                                           device |-> d, employee |-> 0]}
            /\ seq' = IF existing_employee # {} THEN seq ELSE [seq EXCEPT !.duser = @ + 1]
            /\ usernames' =
                   SetName(usernames,
                           IF existing_employee # {} THEN {u.id : u \in existing_employee}
                           ELSE {seq.duser},
                           device_user_name)
            /\ cmdOp' = [kind |-> "user", device |-> d, id |-> 0,
                         response |-> <<[user_id |-> device_user_id,
                                         name |-> device_user_name]>>,
                         found |-> Cardinality(existing_employee)]
            /\ UNCHANGED <<deviceStates, logs, attendances, createTrace, lastOp, rerun,
                           observe, zkAttendance, syncVars, commands, fingerprints, fpOp,
                           raceVars, delivered>>

MaxUserCommands == 1

\* User payloads next to the command queue, whose DEL commands remove device
\* users; at most MaxUserCommands commands are queued.
NextUsers ==
    \/ \E d \in Devices : action_create_employee_device_user(d)
    \/ \E d \in Devices :
           Cardinality(commands) < MaxUserCommands /\ create_export_command(d)
    \/ \E d \in Devices, id \in 1..MaxCommands :
           action_check_zkteco_device_command_revert_res(d, id)

SpecUsers == InitStore /\ [][NextUsers]_vars

\* The display name of device user u, 0 when it has none.
NameOf(N, u) == IF \E n \in N : n.id = u.id THEN (CHOOSE n \in N : n.id = u.id).name ELSE 0

\* C30: after a user payload of device d, d has a device user with the
\* payload's ID and name, and the device users of the other devices and their
\* names are as before.
C30_UserPayloadStaysOnDevice ==
    [][cmdOp'.kind = "user" =>
          LET d == cmdOp'.device
              payload == cmdOp'.response[1]
          IN  /\ \E u \in deviceUsers' :
                     /\ u.device = d
                     /\ u.attend = payload.user_id
                     /\ NameOf(usernames', u) = payload.name
              /\ \A u \in deviceUsers :
                     u.device # d =>
                         (u \in deviceUsers' /\ NameOf(usernames', u) = NameOf(usernames, u))]_vars

---------------------------------------------------------------------------
(* Every operation that touches the device users *)

MaxStored == 1

\* The records created so far: device users, logs, templates, commands and
\* the punches device 1 holds.
Stored ==
    (seq.duser - 4) + (seq.log - 1) + Cardinality(fingerprints) + Cardinality(commands)
        + Len(zkAttendance[1])

\* Device 1 is pulled, device 2 pushes, synchronises its employees and has a
\* command queue; both send user and fingerprint payloads.  An operation that
\* can create a record runs while fewer than MaxStored records were created.
NextAll ==
    \/ \E d \in PullDevices : Stored < MaxStored /\ Punch(d)
    \/ \E d \in PullDevices : action_pull_attendance_logs(d)
    \/ \E d \in PushDevices : Stored < MaxStored /\ action_create_device_zkteco_logs(d)
    \/ \E d \in Devices : Stored < MaxStored /\ action_create_employee_device_user(d)
    \/ \E d \in Devices : Stored < MaxStored /\ action_create_device_user_fingerprint(d)
    \/ \E d \in PushDevices : Stored < MaxStored /\ action_synchronize_employees(d)
    \/ \E d \in PushDevices : Stored < MaxStored /\ create_export_command(d)
    \/ \E d \in PushDevices : action_create_zkteco_device_user_commands(d)
    \/ \E d \in PushDevices, id \in 1..MaxCommands :
           action_check_zkteco_device_command_revert_res(d, id)

SpecAll == InitStore /\ [][NextAll]_vars

\* C29: a step after which a device user row no longer exists is the
\* acknowledgment of a DEL command; every other step keeps all the rows.
C29_OnlyDelRemovesDeviceUsers ==
    [][(\E u \in deviceUsers : \A v \in deviceUsers' : v.id # u.id) =>
          /\ cmdOp'.kind = "ack"
          /\ \E c \in commands :
                 /\ c.id = cmdOp'.id
                 /\ c.name = "DEL"
                 /\ [c EXCEPT !.status = "success"] \in commands']_vars

C29_Witness ==
    /\ cmdOp.kind = "ack"
    /\ cmdOp.found >= 1
    /\ \E c \in commands :
           /\ c.id = cmdOp.id
           /\ c.name = "DEL"
           /\ c.status = "success"
           /\ SearchDeviceUsers(deviceUsers, c.execution_log[1].pin, cmdOp.device) = {}
    /\ Cardinality(deviceUsers) < Cardinality(InitDeviceUsers)

---------------------------------------------------------------------------
(* _constraint_adms_setting *)

MaxStates == 3

Activities == {"check_in", "check_out", "other"}

\* zkteco_attendance_device_status_ids of device d.
StatesOf(states, d) == {m \in states : m.device = d}

\* Lines 180-185: the state mappings after device d is saved with the given
\* is_adms.
ConstraintAdms_Always(states, d, is_adms) ==
    IF is_adms THEN (states \ StatesOf(states, d)) \cup DefaultStates(d) ELSE states
ConstraintAdms(states, d, is_adms) ==
    IF is_adms /\ StatesOf(states, d) = {} THEN states \cup DefaultStates(d) ELSE states

\* Device d is created or saved with a value for is_adms.  The history keeps
\* the value and the mappings the device had.
_constraint_adms_setting(d) ==
    \E is_adms \in BOOLEAN :
        /\ deviceStates' = ConstraintAdms(deviceStates, d, is_adms)
        /\ createTrace' = <<>>
        /\ lastOp' = [kind |-> "save_adms", device |-> d,
                      arg |-> [is_adms |-> is_adms, had |-> StatesOf(deviceStates, d)],
                      ok |-> TRUE]
        /\ rerun' = FALSE
        /\ UNCHANGED <<deviceUsers, logs, attendances, seq, observe, zkAttendance,
                       syncVars, admsVars, raceVars>>

\* A mapping of device d is added or removed in the device form; a device has
\* at most MaxStates mappings.
EditStates(d) ==
    \E m \in [device : {d}, code : StatusCodes, activity : Activities] :
        /\ deviceStates' = IF m \in deviceStates THEN deviceStates \ {m}
                           ELSE deviceStates \cup {m}
        /\ Cardinality(StatesOf(deviceStates', d)) <= MaxStates
        /\ createTrace' = <<>>
        /\ lastOp' = [kind |-> "edit_states", device |-> d, arg |-> <<>>, ok |-> TRUE]
        /\ rerun' = FALSE
        /\ UNCHANGED <<deviceUsers, logs, attendances, seq, observe, zkAttendance,
                       syncVars, admsVars, raceVars>>

NextStates ==
    \/ \E d \in PushDevices : _constraint_adms_setting(d)
    \/ \E d \in PushDevices : EditStates(d)

SpecStates == InitStore /\ [][NextStates]_vars

\* C31: saving device d with ADMS enabled while it has no mapping inserts
\* exactly code 1 -> check_in and code 2 -> check_out; saving it while it has
\* a mapping leaves every mapping as it was; other devices are not touched.
C31_DefaultStatesOnlyWhenEmpty ==
    [][lastOp'.kind = "save_adms" =>
          LET d == lastOp'.device
              had == {m \in deviceStates : m.device = d}
              has == {m \in deviceStates' : m.device = d}
          IN  /\ (lastOp'.arg.is_adms /\ had = {}) =>
                     has = {[device |-> d, code |-> 1, activity |-> "check_in"],
                            [device |-> d, code |-> 2, activity |-> "check_out"]}
              /\ had # {} => has = had
              /\ deviceStates' \ has = deviceStates \ had]_vars

C31_Witness ==
    /\ lastOp.kind = "save_adms"
    /\ lastOp.arg.is_adms
    /\ lastOp.arg.had = {}
    /\ Cardinality({m \in deviceStates : m.device = lastOp.device}) = 2

---------------------------------------------------------------------------
(* Claims about the attendance intervals *)

\* The end of an attendance's interval; an open attendance has not ended.
Forever == MaxLocal + 3
IntervalEnd(a) == IF a.check_out = 0 THEN Forever ELSE a.check_out

\* C32: an employee has at most one open attendance, and no two attendances
\* of an employee overlap.
C32_OneOpenNoOverlap ==
    \A a, b \in attendances :
        (a # b /\ a.employee = b.employee) =>
            /\ ~(a.check_out = 0 /\ b.check_out = 0)
            /\ ~(a.check_in < IntervalEnd(b) /\ b.check_in < IntervalEnd(a))

---------------------------------------------------------------------------
(* Claims about the command requests and the polls *)

\* C33: a device never has two pending USERINFO commands or two pending CHECK
\* commands, and a request that finds a pending command of its name leaves
\* the commands as they are.
C33_OnePendingRequest ==
    [][/\ \A d \in Devices, name \in {"USERINFO", "CHECK"} :
              Cardinality({c \in commands' : /\ c.device = d
                                             /\ c.name = name
                                             /\ c.status = "pending"}) <= 1
       /\ (cmdOp'.kind = "request" /\ cmdOp'.found >= 1) => commands' = commands]_vars

C33_Witness ==
    /\ cmdOp.kind = "request"
    /\ cmdOp.found = 1
    /\ \E c \in commands :
           /\ c.device = cmdOp.device
           /\ c.name = "CHECK"
           /\ c.status = "pending"
    /\ \E c \in commands : c.name = "USERINFO" /\ c.status # "pending"

\* C34: after a poll of device d, the execution log of every command of d
\* that existed before the poll has been in exactly one response, and no
\* execution log is ever in a second response.
C34_DeliveredExactlyOnce ==
    [][/\ \A id \in 1..MaxCommands : delivered'[id] <= 1
       /\ cmdOp'.kind = "poll" =>
              \A c \in commands : c.device = cmdOp'.device => delivered'[c.id] = 1]_vars

---------------------------------------------------------------------------
(* HrAttendance.check_in_check_out_diff *)

\* Instants are whole seconds, 0 is an empty field.  Intervals of up to
\* MaxDays days and more are computed.
MaxDays == 2
DaySeconds == 86400
HourSeconds == 3600
SecondOffsets == {1, 2, 1801, 3601, 86400}
Instants == {d * DaySeconds + s : d \in 0..MaxDays, s \in SecondOffsets}

\* A number of hours as a fraction, and the equality of two fractions.
Fraction(num, den) == [num |-> num, den |-> den]
SameValue(x, y) == x.num * y.den = y.num * x.den

\* Line 279: the seconds attribute of a time difference of elapsed >= 0
\* seconds leaves out the whole days.
TimedeltaSeconds(elapsed) == elapsed % DaySeconds

\* Lines 270-285 for one record: the value, and whether the computation
\* ends without raising.
PunchingDifference(check_in, check_out) ==
    IF check_in # 0 /\ check_out # 0
    THEN IF check_out < check_in
         THEN [ok |-> FALSE, value |-> Fraction(0, 1)]
         ELSE [ok |-> TRUE,
               value |-> Fraction(TimedeltaSeconds(check_out - check_in), HourSeconds)]
    ELSE [ok |-> TRUE, value |-> Fraction(0, 1)]

\* The computation for an Attendance with the given check_in and check_out;
\* the history keeps both and the value.
check_in_check_out_diff(check_in, check_out) ==
    LET out == PunchingDifference(check_in, check_out)
    IN  /\ lastOp' = [kind |-> "diff", device |-> 0,
                      arg |-> [check_in |-> check_in, check_out |-> check_out,
                               value |-> out.value],
                      ok |-> out.ok]
        /\ rerun' = FALSE
        /\ UNCHANGED <<deviceUsers, deviceStates, logs, attendances, seq, createTrace,
                       observe, zkAttendance, syncVars, admsVars, raceVars>>

NextDiff ==
    \E check_in \in Instants \cup {0}, check_out \in Instants \cup {0} :
        check_in_check_out_diff(check_in, check_out)

SpecDiff == InitStore /\ [][NextDiff]_vars

\* C35: the value is the elapsed time check_out - check_in in hours when
\* check_out >= check_in, the computation raises when check_out is earlier
\* than check_in, and the value is 0 when either is empty.
C35_FullElapsedHours ==
    [][lastOp'.kind = "diff" =>
          LET a == lastOp'.arg
          IN  IF a.check_in = 0 \/ a.check_out = 0
              THEN lastOp'.ok /\ SameValue(a.value, Fraction(0, 1))
              ELSE IF a.check_out < a.check_in
                   THEN ~lastOp'.ok
                   ELSE /\ lastOp'.ok
                        /\ SameValue(a.value,
                                     Fraction(a.check_out - a.check_in, HourSeconds))]_vars

====
